---- MODULE Spec2Model ----
(***************************************************************************)
(* Model of python-algo/algo_strategy.py (class AlgoStrategy): the breach  *)
(* tracker (on_action_frame), the threat estimator (compute_damage,        *)
(* least_damage_spawn_location, enemy_least_damage_target) and the turn    *)
(* planner (on_turn, starter_strategy).  The gamelib GameState wrapper is  *)
(* a collaborator; it is modelled as a record and every call the algo      *)
(* makes on it is appended to the record's `calls` trace.                  *)
(***************************************************************************)
EXTENDS Integers, Sequences, FiniteSets, TLC

VARIABLES scored_on_locations, frames, turn_number, pc, turn_state, game_state,
          board, call, result

vars == <<scored_on_locations, frames, turn_number, pc, turn_state, game_state,
          board, call, result>>

(***************************************************************************)
(* Bounds of the model                                                     *)
(***************************************************************************)
MaxTurn == 1
ResSpan == 1
MaxAttackers == 1
MaxEvents == 2
MaxPathLen == 2
MaxOptions == 2

(***************************************************************************)
(* Names bound in on_game_start                                            *)
(***************************************************************************)
WALL == "FF"
TURRET == "DF"
SCOUT == "PI"
MP == 1
SP == 0

Threshold == 11
ScoutCount == 100

(***************************************************************************)
(* Generic sequence helpers                                                *)
(***************************************************************************)
Range(s) == {s[i] : i \in DOMAIN s}

SeqsUpTo(S, n) == UNION {[1..k -> S] : k \in 0..n}

Null == <<>>

(***************************************************************************)
(* The location lists of starter_strategy                                  *)
(***************************************************************************)
wall_locations ==
  << <<0,13>>, <<1,13>>, <<2,13>>, <<2,12>>, <<3,12>>, <<4,11>>, <<7,10>>,
     <<8,9>>, <<9,10>>, <<10,9>>, <<17,9>>, <<18,10>>, <<19,9>>, <<20,10>>,
     <<23,11>>, <<24,12>>, <<25,12>>, <<25,13>>, <<26,13>>, <<27,13>> >>

core_turrets == << <<2,11>>, <<25,11>> >>
secondary_turrets == << <<9,9>>, <<18,9>> >>

left_tunnel == << <<2,13>>, <<2,12>>, <<3,12>>, <<6,10>> >>
right_tunnel == << <<24,12>>, <<25,12>>, <<25,13>>, <<21,10>> >>

reinforce_location ==
  << <<0,13>>, <<27,13>>, <<1,12>>, <<26,12>>, <<4,11>>, <<23,11>> >>
mid_location == [i \in 1..6 |-> <<10 + i, 9>>]
left_location == << <<1,12>>, <<3,13>>, <<6,10>>, <<4,12>>, <<5,11>> >>
right_location == << <<26,12>>, <<24,13>>, <<21,10>>, <<23,12>>, <<22,11>> >>

spawn_row ==
  << <<10,3>>, <<11,2>>, <<12,1>>, <<13,0>>, <<14,0>>, <<15,1>>, <<16,2>>,
     <<17,3>> >>

(***************************************************************************)
(* The GameState collaborator (gamelib): a record                          *)
(*   turn_number, resources (kind -> amount of player 0), projected_MP,    *)
(*   units (occupied locations), upgraded, path (start -> forced path),    *)
(*   attackers (<<location, player_index>> -> number in range),            *)
(*   calls (trace of the calls made on the wrapper).                       *)
(***************************************************************************)
Entry(op, unit, locs, num, val) ==
  [op |-> op, unit |-> unit, locs |-> locs, num |-> num, val |-> val]

Log(gs, e) == [gs EXCEPT !.calls = Append(@, e)]

type_cost(unit) ==
  CASE unit = WALL -> <<1, 0>>
    [] unit = TURRET -> <<2, 0>>
    [] unit = SCOUT -> <<0, 1>>

upgrade_cost == <<1, 0>>

is_stationary(unit) == unit \in {WALL, TURRET}

get_resource(gs, kind, player_index) == gs.resources[kind]

project_future_MP(gs) == gs.projected_MP

contains_stationary_unit(gs, loc) == loc \in gs.units

find_path_to_edge(gs, start_location) == gs.path[start_location]

get_attackers(gs, loc, player_index) == 1..gs.attackers[<<loc, player_index>>]

damage_i == 2

Affordable(gs, cost) ==
  /\ gs.resources[SP] >= cost[1]
  /\ gs.resources[MP] >= cost[2]

Spend(gs, cost) ==
  [gs EXCEPT !.resources = [k \in {SP, MP} |->
      IF k = SP THEN @[SP] - cost[1] ELSE @[MP] - cost[2]]]

\* one placement of attempt_spawn: best effort, nothing happens on failure
SpawnOne(gs, unit, loc) ==
  IF is_stationary(unit)
  THEN IF Affordable(gs, type_cost(unit)) /\ loc \notin gs.units
       THEN [Spend(gs, type_cost(unit)) EXCEPT !.units = @ \cup {loc}]
       ELSE gs
  ELSE IF Affordable(gs, type_cost(unit))
       THEN Spend(gs, type_cost(unit))
       ELSE gs

RECURSIVE SpawnMany(_, _, _, _)
SpawnMany(gs, unit, loc, n) ==
  IF n = 0 \/ ~Affordable(gs, type_cost(unit)) THEN gs
  ELSE SpawnMany(SpawnOne(gs, unit, loc), unit, loc, n - 1)

RECURSIVE SpawnEach(_, _, _, _, _)
SpawnEach(gs, unit, locs, num, i) ==
  IF i > Len(locs) THEN gs
  ELSE SpawnEach(SpawnMany(gs, unit, locs[i], num), unit, locs, num, i + 1)

attempt_spawn(gs, unit, locs, num) ==
  SpawnEach(Log(gs, Entry("attempt_spawn", unit, locs, num, 0)),
            unit, locs, num, 1)

UpgradeOne(gs, loc) ==
  IF loc \in gs.units /\ loc \notin gs.upgraded /\ Affordable(gs, upgrade_cost)
  THEN [Spend(gs, upgrade_cost) EXCEPT !.upgraded = @ \cup {loc}]
  ELSE gs

RECURSIVE UpgradeEach(_, _, _)
UpgradeEach(gs, locs, i) ==
  IF i > Len(locs) THEN gs
  ELSE UpgradeEach(UpgradeOne(gs, locs[i]), locs, i + 1)

attempt_upgrade(gs, locs) ==
  UpgradeEach(Log(gs, Entry("attempt_upgrade", "", locs, 0, 0)), locs, 1)

\* removal is carried out by the engine after the turn is submitted
attempt_remove(gs, locs) == Log(gs, Entry("attempt_remove", "", locs, 0, 0))

submit_turn(gs) == Log(gs, Entry("submit_turn", "", <<>>, 0, 0))

(***************************************************************************)
(* Threat estimator                                                        *)
(***************************************************************************)
RECURSIVE DamageLoop(_, _, _, _, _)
DamageLoop(gs, path, player_index, i, damage) ==
  IF i > Len(path) THEN damage
  ELSE DamageLoop(gs, path, player_index, i + 1,
         damage + Cardinality(get_attackers(gs, path[i], player_index)) * damage_i)

\* variant: the first position of the path is skipped
compute_damage_skip(gs, start_location, player_index) ==
  DamageLoop(gs, find_path_to_edge(gs, start_location), player_index, 2, 0)

compute_damage(gs, start_location, player_index) ==
  DamageLoop(gs, find_path_to_edge(gs, start_location), player_index, 1, 0)

\* Python's min(list) and list.index(value)
RECURSIVE ListMin(_, _, _)
ListMin(s, i, m) ==
  IF i > Len(s) THEN m
  ELSE ListMin(s, i + 1, IF s[i] < m THEN s[i] ELSE m)

min(s) == ListMin(s, 2, s[1])

RECURSIVE IndexFrom(_, _, _)
IndexFrom(s, v, i) == IF s[i] = v THEN i ELSE IndexFrom(s, v, i + 1)

\* variant: the last position of the value instead of the first
index_last(s, v) == CHOOSE i \in DOMAIN s : s[i] = v /\ \A j \in DOMAIN s : s[j] = v => j <= i

index(s, v) == IndexFrom(s, v, 1)

least_damage_spawn_location(gs, location_options) ==
  LET damages == [i \in 1..Len(location_options) |->
                    compute_damage(gs, location_options[i], 0)]
  IN location_options[index(damages, min(damages))]

get_edge_locations(gs, quadrant) == gs.edges[quadrant]

TOP_RIGHT == 0
TOP_LEFT == 1

Raised(e) == [ok |-> FALSE, error |-> e, value |-> <<>>]
Returned(v) == [ok |-> TRUE, error |-> "", value |-> v]

enemy_least_damage_target(gs) ==
  LET enemy_options == get_edge_locations(gs, TOP_LEFT) \o get_edge_locations(gs, TOP_RIGHT)
      damages == [i \in 1..Len(enemy_options) |->
                    compute_damage(gs, enemy_options[i], 1)]
      idx == index(damages, min(damages))
      path == find_path_to_edge(gs, enemy_options[idx])
  IN IF Len(path) = 0 THEN Raised("IndexError")
     ELSE Returned(<<path[Len(path)], damages[idx]>>)

(***************************************************************************)
(* Turn planner: the steps of starter_strategy, in program order           *)
(***************************************************************************)
\* Python's s[start:stop:step] with 0-based start and stop
RECURSIVE Slice(_, _, _, _)
Slice(s, start, stop, step) ==
  IF start >= stop \/ start >= Len(s) THEN <<>>
  ELSE <<s[start + 1]>> \o Slice(s, start + step, stop, step)

\* variant: the perimeter is placed again on turn 1
FirstTurnBootstrap_late(gs) ==
  IF gs.turn_number <= 1 THEN attempt_spawn(gs, WALL, wall_locations, 1) ELSE gs

FirstTurnBootstrap(gs) ==
  IF gs.turn_number = 0 THEN attempt_spawn(gs, WALL, wall_locations, 1) ELSE gs

BaselineDefense(gs) ==
  LET a == attempt_spawn(gs, TURRET, core_turrets, 1)
      b == attempt_upgrade(a, core_turrets)
  IN attempt_spawn(b, TURRET, secondary_turrets, 1)

\* a read of get_resource(1, 0), recorded in the trace
ReadMP(gs) == Log(gs, Entry("get_resource", "", <<>>, MP, get_resource(gs, MP, 0)))

\* variant: the gate reads resource kind 0
TunnelGating_kind0(gs) ==
  LET g == Log(gs, Entry("get_resource", "", <<>>, SP, get_resource(gs, SP, 0)))
  IN IF get_resource(gs, SP, 0) <= Threshold
     THEN attempt_spawn(g, WALL, left_tunnel \o right_tunnel, 1)
     ELSE g

TunnelGating(gs) ==
  LET g == ReadMP(gs)
  IN IF get_resource(gs, MP, 0) <= Threshold
     THEN attempt_spawn(g, WALL, left_tunnel \o right_tunnel, 1)
     ELSE g

RECURSIVE PairLoop(_, _, _)
PairLoop(gs, i, stop) ==
  IF i >= stop THEN gs
  ELSE PairLoop(attempt_spawn(gs, WALL, <<left_location[i + 1], right_location[i + 1]>>, 1),
                i + 1, stop)

FrontWalls(gs) ==
  LET a == attempt_spawn(gs, WALL, Slice(mid_location, 1, 6, 2), 1)
      b == PairLoop(a, 0, 3)
  IN attempt_upgrade(b, secondary_turrets)

\* variant: the else is missing, the wall is requested in both cases
ReinforceOne_both(gs, x) ==
  LET found == contains_stationary_unit(gs, x)
      g == Log(gs, Entry("contains_stationary_unit", "", <<x>>, 0,
                         IF found THEN 1 ELSE 0))
  IN attempt_spawn(IF found THEN attempt_upgrade(g, <<x>>) ELSE g, WALL, <<x>>, 1)

ReinforceOne(gs, x) ==
  LET found == contains_stationary_unit(gs, x)
      g == Log(gs, Entry("contains_stationary_unit", "", <<x>>, 0,
                         IF found THEN 1 ELSE 0))
  IN IF found THEN attempt_upgrade(g, <<x>>)
     ELSE attempt_spawn(g, WALL, <<x>>, 1)

RECURSIVE ReinforceLoop(_, _)
ReinforceLoop(gs, i) ==
  IF i > Len(reinforce_location) THEN gs
  ELSE ReinforceLoop(ReinforceOne(gs, reinforce_location[i]), i + 1)

ReinforcementPass(gs) == ReinforceLoop(gs, 1)

BackWalls(gs) ==
  attempt_spawn(PairLoop(gs, 3, 5), WALL, Slice(mid_location, 0, 6, 2), 1)

\* variant: the release looks at the projection only
TunnelRelease_projection(gs) ==
  LET p == Log(gs, Entry("project_future_MP", "", <<>>, 0, project_future_MP(gs)))
  IN IF project_future_MP(gs) > Threshold
     THEN attempt_remove(attempt_remove(p, left_tunnel), right_tunnel)
     ELSE p

\* `project_future_MP() > 11 and get_resource(1,0) <= 11`: the resource is
\* read only when the projection exceeds the threshold
TunnelRelease(gs) ==
  LET p == Log(gs, Entry("project_future_MP", "", <<>>, 0, project_future_MP(gs)))
  IN IF project_future_MP(gs) > Threshold
     THEN IF get_resource(gs, MP, 0) <= Threshold
          THEN attempt_remove(attempt_remove(ReadMP(p), left_tunnel), right_tunnel)
          ELSE ReadMP(p)
     ELSE p

\* variant: the push starts at the threshold
OffensivePush_inclusive(gs) ==
  LET g == ReadMP(gs)
  IN IF get_resource(gs, MP, 0) >= Threshold
     THEN attempt_spawn(g, SCOUT, <<least_damage_spawn_location(g, spawn_row)>>,
                        ScoutCount)
     ELSE g

OffensivePush(gs) ==
  LET g == ReadMP(gs)
  IN IF get_resource(gs, MP, 0) > Threshold
     THEN attempt_spawn(g, SCOUT, <<least_damage_spawn_location(g, spawn_row)>>,
                        ScoutCount)
     ELSE g

\* the statements in program order, innermost first; each set is evaluated
\* before the statement around it is applied to its element
starter_strategy(gs) ==
  CHOOSE g \in
    {OffensivePush(s7) : s7 \in
    {TunnelRelease(s6) : s6 \in
    {BackWalls(s5) : s5 \in
    {ReinforcementPass(s4) : s4 \in
    {FrontWalls(s3) : s3 \in
    {TunnelGating(s2) : s2 \in
    {BaselineDefense(s1) : s1 \in
    {FirstTurnBootstrap(gs)}}}}}}}} : TRUE

\* variant: the turn is submitted before the strategy runs
run_turn_early(ts) == starter_strategy(submit_turn(ts))

\* body of on_turn: the wrapper is built from turn_state, the strategy runs,
\* the turn is submitted
run_turn(ts) == CHOOSE g \in {submit_turn(s) : s \in {starter_strategy(ts)}} : TRUE

\* variant: owner 2 is taken for the caller
RECURSIVE BreachLoop_swapped(_, _, _)
BreachLoop_swapped(breaches, i, acc) ==
  IF i > Len(breaches) THEN acc
  ELSE LET location == breaches[i].location
           unit_owner_self == breaches[i].owner = 2
       IN BreachLoop_swapped(breaches, i + 1,
                     IF ~unit_owner_self THEN Append(acc, location) ELSE acc)

\* body of on_action_frame: the locations appended for one batch of breaches
RECURSIVE BreachLoop(_, _, _)
BreachLoop(breaches, i, acc) ==
  IF i > Len(breaches) THEN acc
  ELSE LET location == breaches[i].location
           unit_owner_self == breaches[i].owner = 1
       IN BreachLoop(breaches, i + 1,
                     IF ~unit_owner_self THEN Append(acc, location) ELSE acc)

(***************************************************************************)
(* Inputs of the bounded model                                             *)
(***************************************************************************)
Resources == (Threshold - ResSpan)..(Threshold + ResSpan)

\* forecasts on either side of the threshold
Projections == {Threshold, Threshold + 1}

\* structures that may have survived from earlier turns
PrebuiltLocs == {<<27,13>>}

\* spawn locations whose forced path may be covered by attackers
GuardedLocs == {spawn_row[1], spawn_row[2]}

PlannerThreats ==
  {[k \in Range(spawn_row) \X {0, 1} |->
      IF k[1] \in GuardedLocs /\ k[2] = 0 THEN f[k[1]] ELSE 0] :
   f \in [GuardedLocs -> 0..MaxAttackers]}

TurnStates(t) ==
  {[turn_number |-> t, resources |-> r, projected_MP |-> p, units |-> u,
    upgraded |-> {}, path |-> [c \in Range(spawn_row) |-> <<c>>],
    attackers |-> a, calls |-> <<>>] :
   r \in [{SP, MP} -> Resources], p \in Projections,
   u \in (IF t = 0 THEN {{}} ELSE SUBSET PrebuiltLocs), a \in PlannerThreats}

BreachLocs == {<<5,7>>, <<6,7>>}
BreachEvents == [location : BreachLocs, owner : {1, 2}]

EstLocs == {<<13,27>>, <<14,27>>}

Boards ==
  {[path |-> p, attackers |-> a,
    edges |-> [q \in {TOP_RIGHT, TOP_LEFT} |->
                 IF q = TOP_LEFT THEN << <<13,27>> >> ELSE << <<14,27>> >>]] :
   p \in [EstLocs -> SeqsUpTo(EstLocs, MaxPathLen)],
   a \in [EstLocs \X {0, 1} -> 0..MaxAttackers]}

Invocation(op, options, player_index) ==
  [op |-> op, options |-> options, player_index |-> player_index]

NoCall == Invocation("", <<>>, 0)
NoResult == Returned(<<>>)

(***************************************************************************)
(* The match: on_game_start has run, the engine delivers turns and frames  *)
(***************************************************************************)
Init ==
  /\ scored_on_locations = <<>>
  /\ frames = <<>>
  /\ turn_number = 0
  /\ pc = "idle"
  /\ turn_state = Null
  /\ game_state = Null
  /\ board = Null
  /\ call = NoCall
  /\ result = NoResult

DeliverTurn ==
  /\ pc = "idle"
  /\ turn_number <= MaxTurn
  /\ \E ts \in TurnStates(turn_number) : turn_state' = ts
  /\ pc' = "turn"
  /\ UNCHANGED <<scored_on_locations, frames, turn_number, game_state,
                 board, call, result>>

on_turn ==
  /\ pc = "turn"
  /\ game_state' = run_turn(turn_state)
  /\ pc' = "submitted"
  /\ UNCHANGED <<scored_on_locations, frames, turn_number, turn_state,
                 board, call, result>>

EndTurn ==
  /\ pc = "submitted"
  /\ pc' = "idle"
  /\ turn_number' = turn_number + 1
  /\ turn_state' = Null
  /\ game_state' = Null
  /\ UNCHANGED <<scored_on_locations, frames, board, call, result>>

on_action_frame ==
  /\ \E breaches \in SeqsUpTo(BreachEvents, MaxEvents) :
       /\ Len(frames) + Len(breaches) <= MaxEvents
       /\ frames' = frames \o breaches
       /\ scored_on_locations' = BreachLoop(breaches, 1, scored_on_locations)
  /\ UNCHANGED <<turn_number, pc, turn_state, game_state, board, call, result>>

Next == DeliverTurn \/ on_turn \/ EndTurn \/ on_action_frame

Spec == Init /\ [][Next]_vars

(***************************************************************************)
(* The estimator applied to bounded boards and candidate lists             *)
(***************************************************************************)
InitEst ==
  /\ scored_on_locations = <<>>
  /\ frames = <<>>
  /\ turn_number = 0
  /\ pc = "idle"
  /\ turn_state = Null
  /\ game_state = Null
  /\ board \in Boards
  /\ call = NoCall
  /\ result = NoResult

CallComputeDamage ==
  /\ \E loc \in EstLocs, p \in {0, 1} :
       /\ call' = Invocation("compute_damage", <<loc>>, p)
       /\ result' = Returned(compute_damage(board, loc, p))
  /\ UNCHANGED <<scored_on_locations, frames, turn_number, pc, turn_state,
                 game_state, board>>

CallLeastDamage ==
  /\ \E opts \in SeqsUpTo(EstLocs, MaxOptions) \ {<<>>} :
       /\ call' = Invocation("least_damage_spawn_location", opts, 0)
       /\ result' = Returned(least_damage_spawn_location(board, opts))
  /\ UNCHANGED <<scored_on_locations, frames, turn_number, pc, turn_state,
                 game_state, board>>

CallEnemyTarget ==
  /\ call' = Invocation("enemy_least_damage_target", <<>>, 1)
  /\ result' = enemy_least_damage_target(board)
  /\ UNCHANGED <<scored_on_locations, frames, turn_number, pc, turn_state,
                 game_state, board>>

NextEst == CallComputeDamage \/ CallLeastDamage \/ CallEnemyTarget

SpecEst == InitEst /\ [][NextEst]_vars

(***************************************************************************)
(* Vocabulary of the properties                                            *)
(***************************************************************************)
Submitted == pc = "submitted"

Requested(e) == \E i \in DOMAIN game_state.calls : game_state.calls[i] = e

Positions(e) == {i \in DOMAIN game_state.calls : game_state.calls[i] = e}

TunnelFill == Entry("attempt_spawn", WALL, left_tunnel \o right_tunnel, 1, 0)
RemoveLeft == Entry("attempt_remove", "", left_tunnel, 0, 0)
RemoveRight == Entry("attempt_remove", "", right_tunnel, 0, 0)
Perimeter == Entry("attempt_spawn", WALL, wall_locations, 1, 0)
Deployment(loc) == Entry("attempt_spawn", SCOUT, <<loc>>, ScoutCount, 0)

TunnelLocs == Range(left_tunnel) \cup Range(right_tunnel)

IsPush(e) == e.op = "attempt_spawn" /\ e.unit = SCOUT

RECURSIVE SumOver(_, _)
SumOver(S, f) ==
  IF S = {} THEN 0
  ELSE LET x == CHOOSE y \in S : TRUE IN f[x] + SumOver(S \ {x}, f)

\* the damage of a start location, position by position of its forced path
PathDamage(gs, start, player_index) ==
  LET path == gs.path[start]
  IN SumOver(DOMAIN path,
             [i \in DOMAIN path |-> gs.attackers[<<path[i], player_index>>] * damage_i])

\* the smallest index of `options` whose damage is minimal
FirstSafest(gs, options, player_index) ==
  CHOOSE i \in DOMAIN options :
    /\ \A j \in DOMAIN options :
         PathDamage(gs, options[i], player_index) <= PathDamage(gs, options[j], player_index)
    /\ \A j \in 1..(i - 1) :
         PathDamage(gs, options[j], player_index) > PathDamage(gs, options[i], player_index)

IsOpponent(e) == e.owner = 2

OpponentLocations(events) ==
  LET sel == SelectSeq(events, IsOpponent)
  IN [i \in DOMAIN sel |-> sel[i].location]

(***************************************************************************)
(* C1: least_damage_spawn_location returns an element of the candidate     *)
(* list whose damage is at most that of every candidate, and among the     *)
(* candidates of minimal damage the one at the smallest index.             *)
(***************************************************************************)
C1_SelectMinDamage ==
  call.op = "least_damage_spawn_location" =>
    /\ result.ok
    /\ \E i \in DOMAIN call.options :
         /\ result.value = call.options[i]
         /\ \A j \in DOMAIN call.options :
              PathDamage(board, call.options[i], 0) <= PathDamage(board, call.options[j], 0)
         /\ \A j \in 1..(i - 1) :
              PathDamage(board, call.options[j], 0) > PathDamage(board, call.options[i], 0)
    /\ result.value = call.options[FirstSafest(board, call.options, 0)]

C1_Witness ==
  /\ call.op = "least_damage_spawn_location"
  /\ Len(call.options) = 2
  /\ call.options[2] # call.options[1]
  /\ PathDamage(board, call.options[1], 0) = PathDamage(board, call.options[2], 0)
  /\ PathDamage(board, call.options[1], 0) > 0
  /\ result.value = call.options[1]

(***************************************************************************)
(* C2: compute_damage returns the sum, over the positions of the forced    *)
(* path counted with multiplicity, of the number of attackers in range     *)
(* times damage_i; it returns 0 without failing on an empty path or a path *)
(* with no attacker in range.                                              *)
(***************************************************************************)
C2_ComputeDamage ==
  call.op = "compute_damage" =>
    LET start == call.options[1]
        path == board.path[start]
    IN /\ result.ok
       /\ result.value = PathDamage(board, start, call.player_index)
       /\ (\A i \in DOMAIN path : board.attackers[<<path[i], call.player_index>>] = 0)
            => result.value = 0

C2_Witness ==
  /\ call.op = "compute_damage"
  /\ LET path == board.path[call.options[1]]
     IN /\ Len(path) = 2
        /\ path[1] = path[2]
        /\ board.attackers[<<path[1], call.player_index>>] = 1
  /\ result.value = 2 * damage_i

(***************************************************************************)
(* C6 as claimed: enemy_least_damage_target returns, without failing, the  *)
(* opponent-side edge location of minimal damage together with its damage. *)
(***************************************************************************)
C6_EnemyEntry ==
  call.op = "enemy_least_damage_target" =>
    LET options == board.edges[TOP_LEFT] \o board.edges[TOP_RIGHT]
    IN /\ result.ok
       /\ \E i \in DOMAIN options :
            /\ result.value = <<options[i], PathDamage(board, options[i], 1)>>
            /\ \A j \in DOMAIN options :
                 PathDamage(board, options[i], 1) <= PathDamage(board, options[j], 1)

(***************************************************************************)
(* C3: whatever the interleaving of turns and action frames, the breach    *)
(* history is, in arrival order and without deduplication, the locations   *)
(* of the delivered breach events owned by the opponent; its length never  *)
(* decreases and a run of on_turn leaves it unchanged.                     *)
(***************************************************************************)
C3_BreachHistory ==
  /\ [](scored_on_locations = OpponentLocations(frames))
  /\ [][/\ Len(scored_on_locations') >= Len(scored_on_locations)
        /\ SubSeq(scored_on_locations', 1, Len(scored_on_locations)) = scored_on_locations
        /\ (pc = "turn" /\ pc' = "submitted") => scored_on_locations' = scored_on_locations
       ]_vars

C3_Witness ==
  /\ Submitted
  /\ Len(frames) = 2
  /\ frames[1].owner = 1
  /\ frames[2].owner = 2
  /\ scored_on_locations = <<frames[2].location>>

(***************************************************************************)
(* C4 as claimed: in a turn whose structure resource (kind 0) exceeds 11   *)
(* no wall placement is requested at any tunnel location and the           *)
(* offensive deployment is requested.                                      *)
(***************************************************************************)
C4_StructureGate ==
  (Submitted /\ turn_state.resources[SP] > Threshold) =>
    /\ \A i \in DOMAIN game_state.calls :
         LET e == game_state.calls[i]
         IN (e.op = "attempt_spawn" /\ e.unit = WALL) => Range(e.locs) \cap TunnelLocs = {}
    /\ Requested(Deployment(spawn_row[FirstSafest(game_state, spawn_row, 0)]))

(***************************************************************************)
(* C4 amended: in a turn whose mobility resource (kind 1) exceeds 11 the   *)
(* tunnel-filler request (walls over left_tunnel + right_tunnel) is not    *)
(* issued, the only wall requests touching a tunnel location are the       *)
(* turn-0 perimeter and the pair [6,10],[21,10], and the deployment of 100 *)
(* scouts at the least-damage location of the spawn row is requested.      *)
(***************************************************************************)
C4_MobilityGate ==
  (Submitted /\ turn_state.resources[MP] > Threshold) =>
    /\ ~Requested(TunnelFill)
    /\ \A i \in DOMAIN game_state.calls :
         LET e == game_state.calls[i]
         IN (e.op = "attempt_spawn" /\ e.unit = WALL /\ Range(e.locs) \cap TunnelLocs # {})
              => \/ e = Perimeter /\ turn_state.turn_number = 0
                 \/ e.locs = << <<6,10>>, <<21,10>> >>
    /\ Requested(Deployment(spawn_row[FirstSafest(game_state, spawn_row, 0)]))
    /\ Cardinality({i \in DOMAIN game_state.calls : IsPush(game_state.calls[i])}) = 1

C4_Witness ==
  /\ Submitted
  /\ turn_state.resources[MP] > Threshold
  /\ turn_state.resources[SP] <= Threshold
  /\ FirstSafest(game_state, spawn_row, 0) = 3
  /\ Requested(Deployment(spawn_row[3]))

(***************************************************************************)
(* C5 as claimed: removal of the tunnel walls is requested exactly when    *)
(* the projected mobility resource exceeds 11 and the structure resource   *)
(* (kind 0) is at most 11.                                                 *)
(***************************************************************************)
C5_StructureRelease ==
  Submitted =>
    ((Requested(RemoveLeft) /\ Requested(RemoveRight))
       <=> (turn_state.projected_MP > Threshold /\ turn_state.resources[SP] <= Threshold))

(***************************************************************************)
(* C5 amended: removal of the tunnel walls (left_tunnel, then              *)
(* right_tunnel) is requested exactly when the projected mobility resource *)
(* exceeds 11 and the mobility resource (kind 1) is at most 11; no other   *)
(* removal is requested.                                                   *)
(***************************************************************************)
C5_MobilityRelease ==
  Submitted =>
    /\ (Requested(RemoveLeft) /\ Requested(RemoveRight))
         <=> (turn_state.projected_MP > Threshold /\ turn_state.resources[MP] <= Threshold)
    /\ Requested(RemoveLeft) <=> Requested(RemoveRight)
    /\ \A i \in DOMAIN game_state.calls :
         game_state.calls[i].op = "attempt_remove"
           => game_state.calls[i] \in {RemoveLeft, RemoveRight}

C5_Witness ==
  /\ Submitted
  /\ turn_state.projected_MP > Threshold
  /\ turn_state.resources[MP] <= Threshold
  /\ turn_state.resources[SP] > Threshold
  /\ Requested(RemoveLeft)
  /\ Requested(RemoveRight)

(***************************************************************************)
(* C7: a run of on_turn calls submit_turn exactly once, and it is the last *)
(* call of the turn: every placement, upgrade, removal and spawn request   *)
(* precedes it.                                                            *)
(***************************************************************************)
C7_SubmitLast ==
  Submitted =>
    /\ Positions(Entry("submit_turn", "", <<>>, 0, 0)) = {Len(game_state.calls)}
    /\ \A i \in DOMAIN game_state.calls :
         game_state.calls[i].op = "submit_turn" <=> i = Len(game_state.calls)

C7_Witness ==
  /\ Submitted
  /\ Len(game_state.calls) > 1
  /\ \E i \in 1..(Len(game_state.calls) - 1) :
       game_state.calls[i].op \in {"attempt_spawn", "attempt_upgrade", "attempt_remove"}
  /\ game_state.calls[Len(game_state.calls)].op = "submit_turn"

(***************************************************************************)
(* C8: for each location of reinforce_location, in list order, the         *)
(* reinforcement pass asks contains_stationary_unit once and issues        *)
(* exactly one request for that location: an upgrade if a unit was         *)
(* reported, a wall placement otherwise, never both.                       *)
(***************************************************************************)
PassQuery(k) ==
  {i \in DOMAIN game_state.calls :
     /\ game_state.calls[i].op = "contains_stationary_unit"
     /\ game_state.calls[i].locs = <<reinforce_location[k]>>}

PassRequests(k) ==
  {i \in DOMAIN game_state.calls :
     /\ game_state.calls[i].op \in {"attempt_spawn", "attempt_upgrade"}
     /\ game_state.calls[i].locs = <<reinforce_location[k]>>}

C8_UpgradeOrBuild ==
  Submitted =>
    /\ \A k \in DOMAIN reinforce_location :
         /\ Cardinality(PassQuery(k)) = 1
         /\ Cardinality(PassRequests(k)) = 1
         /\ \A i \in PassQuery(k) :
              /\ PassRequests(k) = {i + 1}
              /\ game_state.calls[i + 1] =
                   IF game_state.calls[i].val = 1
                   THEN Entry("attempt_upgrade", "", <<reinforce_location[k]>>, 0, 0)
                   ELSE Entry("attempt_spawn", WALL, <<reinforce_location[k]>>, 1, 0)
    /\ \A k \in 1..(Len(reinforce_location) - 1) :
         \A i \in PassQuery(k), j \in PassQuery(k + 1) : i < j
    /\ Cardinality({i \in DOMAIN game_state.calls :
                      game_state.calls[i].op = "contains_stationary_unit"})
         = Len(reinforce_location)

C8_Witness ==
  /\ Submitted
  /\ \E i, j \in DOMAIN game_state.calls :
       /\ game_state.calls[i].op = "contains_stationary_unit"
       /\ game_state.calls[i].val = 1
       /\ game_state.calls[i + 1].op = "attempt_upgrade"
       /\ game_state.calls[j].op = "contains_stationary_unit"
       /\ game_state.calls[j].val = 0
       /\ game_state.calls[j + 1].op = "attempt_spawn"

(***************************************************************************)
(* C9: the perimeter placement (walls over wall_locations) is requested in *)
(* the turn numbered 0 and in no turn with a greater number, and when it   *)
(* is requested it is the first call of the turn.                          *)
(***************************************************************************)
C9_PerimeterOnce ==
  Submitted =>
    /\ Requested(Perimeter) <=> turn_state.turn_number = 0
    /\ Positions(Perimeter) \subseteq {1}

C9_Witness ==
  /\ Submitted
  /\ turn_state.turn_number = 0
  /\ game_state.calls[1] = Perimeter

(***************************************************************************)
(* C10: in every turn exactly one of the tunnel-filler placement and the   *)
(* offensive push is requested, every read of the gating resource returns  *)
(* the amount the turn started with, and the tunnel release is requested   *)
(* only after a tunnel-filler placement of the same turn and never         *)
(* together with an offensive push.                                        *)
(***************************************************************************)
C10_OneGatedStep ==
  Submitted =>
    LET pushed == \E i \in DOMAIN game_state.calls : IsPush(game_state.calls[i])
    IN /\ Requested(TunnelFill) <=> ~pushed
       /\ \A i \in DOMAIN game_state.calls :
            game_state.calls[i].op = "get_resource"
              => /\ game_state.calls[i].num = MP
                 /\ game_state.calls[i].val = turn_state.resources[MP]
       /\ \A j \in DOMAIN game_state.calls :
            game_state.calls[j].op = "attempt_remove"
              => /\ \E i \in 1..(j - 1) : game_state.calls[i] = TunnelFill
                 /\ ~pushed

C10_Witness ==
  /\ Submitted
  /\ \E i, j \in DOMAIN game_state.calls :
       /\ i < j
       /\ game_state.calls[i] = TunnelFill
       /\ game_state.calls[j] = RemoveLeft
  /\ Cardinality({i \in DOMAIN game_state.calls :
                    game_state.calls[i].op = "get_resource"}) = 3

====
